---- MODULE Spec2Model ----
(***************************************************************************)
(* Behavior local-id allocator (app/src/behavior.c) and the keymap RPC     *)
(* subsystem of ZMK Studio (app/src/studio/keymap_subsystem.c).            *)
(*                                                                         *)
(* Six specifications share the variables:                                 *)
(*   SpecAlloc    boot of the settings-table local-id allocator            *)
(*   SpecReboot   boots in sequence, the firmware rebuilt in between       *)
(*   SpecRerun    the settings handler run again on the store it left      *)
(*   Spec         the keymap RPC handlers, after a completed boot          *)
(*   SpecMigrate  migrate_keymap on arbitrary keymaps and position maps    *)
(*   SpecValidate the validation and lookup functions on bounded inputs    *)
(***************************************************************************)
EXTENDS Integers, Sequences, FiniteSets, TLC

\* ------------------------------------------------------------------ bounds
MaxStore == 2           \* persisted local_id entries present at boot
MaxOps == 2             \* RPC requests handled in one run of Spec
MaxWriteFailures == 1   \* failing store writes during one migration in Spec
MaxBoots == 2           \* boots on one store in SpecReboot, runs in SpecRerun
MaxSpecs == 2           \* value specs of one parameter in SpecValidate
MaxSets == 2            \* parameter sets of one metadata in SpecValidate

\* ------------------------------------------------------- program constants
UINT16_MAX == 65535
ZMK_KEYMAP_LAYERS_LEN == 2
ZMK_KEYMAP_LEN == 3

NULL == "NULL"
\* TLC integers are 32 bits wide: UINT32_MAX is kept as the int32 of the same bits.
UINT32_MAX == -1

EINVAL == 22
ENODEV == 19
ENOTSUP == 134

Uint8(n) == n % 256
Uint16(n) == n % 65536
MAX(a, b) == IF a > b THEN a ELSE b

VARIABLES
    \* behavior.c: the zmk_behavior_local_id_map section and the settings store
    behaviors,          \* device names, in section (registration) order
    ready,              \* z_device_is_ready of each item's device
    local_id,           \* item->local_id of each item
    largest_local_id,   \* static largest_local_id
    settings,           \* persisted "behavior/local_id/<key>" -> name entries
    pending,            \* entries settings_load_subtree has still to hand over
    replayed,           \* entries handed to behavior_handle_set, in order
    boot_settings,      \* the store as it was when this boot started
    alloc_pc,           \* "boot" | "replay" | "ready"
    persisted,          \* every entry the store has ever held
    boots,              \* boots started so far
    first_run,          \* SpecRerun: ids, counter and store the first run left
    \* keymap store and physical layout store
    keymap,             \* current bindings, keymap[layer][position]
    keymap_saved,       \* persisted bindings
    keymap_unsaved,     \* zmk_keymap_check_unsaved_changes() > 0
    selected,           \* zmk_physical_layouts_get_selected()
    selected_saved,     \* persisted layout selection
    layout_unsaved,     \* zmk_physical_layouts_check_unsaved_selection() > 0
    \* what the last RPC handler did
    resp,               \* the zmk_Response it returned
    notif,              \* notifications it raised, in order
    calls,              \* collaborator calls it made, in order
    last_notified,      \* value of the most recent notification, or "none"
    ops,                \* requests handled so far
    mig,                \* SpecMigrate: the migration last run and its inputs
    applied             \* SpecValidate: the function last applied, its input and result

alloc_vars == <<behaviors, ready, local_id, largest_local_id, settings, pending,
                replayed, boot_settings, alloc_pc, persisted, boots,
                first_run>>
store_vars == <<keymap, keymap_saved, keymap_unsaved, selected, selected_saved,
                layout_unsaved>>
rpc_vars == <<resp, notif, calls, last_notified, ops>>
vars == <<alloc_vars, store_vars, rpc_vars, mig, applied>>

\* ------------------------------------------------------------- behavior.c
Names == {"a", "b", "c"}        \* names of behaviors a firmware may register
StoredNames == Names \cup {"z"} \* "z": a behavior no firmware here registers
BadKey == -1                    \* a key whose suffix is not a decimal number
StoredKeys == {1, 2, 255, 257, BadKey}

Items == DOMAIN behaviors

\* First item, in the section's order, of the set S of items; 0 when S is empty.
FirstItem(S) ==
    IF S = {} THEN 0 ELSE CHOOSE i \in S : \A j \in S : i <= j

zmk_behavior_get_local_id(name) ==
    IF name = NULL THEN UINT16_MAX
    ELSE LET i == FirstItem({k \in Items : ready[k] /\ behaviors[k] = name})
         IN IF i = 0 THEN UINT16_MAX ELSE local_id[i]

\* (faulty variant: the z_device_is_ready test left out)
find_behavior_name_IgnoringReady(id) ==
    IF \E k \in DOMAIN behaviors : local_id[k] = id
    THEN behaviors[CHOOSE k \in DOMAIN behaviors :
                      /\ local_id[k] = id
                      /\ \A j \in DOMAIN behaviors : local_id[j] = id => k <= j]
    ELSE NULL

zmk_behavior_find_behavior_name_from_local_id(id) ==
    LET i == FirstItem({k \in Items : ready[k] /\ local_id[k] = id})
    IN IF i = 0 THEN NULL ELSE behaviors[i]

\* sprintf(setting_name, "behavior/local_id/%d", item->local_id): the key is the
\* decimal numeral of the id, kept here as the number it denotes.
SettingKey(id) == id

\* uint8_t local_id = strtoul(next, &endptr, 10): the numeral, cut to 8 bits.
ParseLocalId(key) == Uint8(key)

\* settings_save_one: the value stored under a key replaces an earlier one.
settings_save_one(store, key, val) ==
    {e \in store : e.key # key} \cup {[key |-> key, val |-> val]}

\* (faulty variant: the counter raised before the name is looked up)
behavior_handle_set_CountsUnmatched(ids, largest, e) ==
    IF e.key = BadKey
    THEN [ids |-> ids, largest |-> largest, ret |-> -EINVAL]
    ELSE LET id == Uint8(e.key)
             i == IF \E k \in DOMAIN behaviors : behaviors[k] = e.val
                  THEN CHOOSE k \in DOMAIN behaviors :
                          /\ behaviors[k] = e.val
                          /\ \A j \in DOMAIN behaviors : behaviors[j] = e.val => k <= j
                  ELSE 0
         IN IF i = 0
            THEN [ids |-> ids, largest |-> MAX(largest, id), ret |-> -EINVAL]
            ELSE [ids |-> [ids EXCEPT ![i] = id],
                  largest |-> MAX(largest, id),
                  ret |-> 0]

\* behavior_handle_set on one persisted entry: the new ids, counter and result.
\* (Names are device names, shorter than 64 bytes, and the store reads back
\* what was written, so the len >= 64 and read_cb error returns are not taken.)
behavior_handle_set(ids, largest, e) ==
    IF e.key = BadKey
    THEN [ids |-> ids, largest |-> largest, ret |-> -EINVAL]
    ELSE LET id == ParseLocalId(e.key)
             i == FirstItem({k \in Items : behaviors[k] = e.val})
         IN IF i = 0
            THEN [ids |-> ids, largest |-> largest, ret |-> -EINVAL]
            ELSE [ids |-> [ids EXCEPT ![i] = id],
                  largest |-> MAX(largest, id),
                  ret |-> 0]

\* behavior_handle_commit from item i on: every item still at 0 gets
\* ++largest_local_id and is saved under its key.
\* (faulty variant: the counter read before it is incremented, largest_local_id++)
AssignedId_PostIncrement(largest) == largest

\* item->local_id = ++largest_local_id: the value the item receives
AssignedId(largest) == Uint16(largest + 1)

RECURSIVE CommitFrom(_, _, _, _)
CommitFrom(i, ids, largest, store) ==
    IF i > Len(behaviors) THEN [ids |-> ids, largest |-> largest, store |-> store]
    ELSE IF ids[i] # 0 THEN CommitFrom(i + 1, ids, largest, store)
    ELSE LET id == AssignedId(largest)
         IN CommitFrom(i + 1, [ids EXCEPT ![i] = id], Uint16(largest + 1),
                       settings_save_one(store, SettingKey(id), behaviors[i]))

behavior_handle_commit(ids, largest, store) == CommitFrom(1, ids, largest, store)

\* ------------------------------------------------ parameter validation
HID_USAGE_KEY == 7
HID_USAGE_CONSUMER == 12
ZMK_HID_KEYBOARD_NKRO_MAX_USAGE == 103
LEFT_CONTROL == 224
RIGHT_GUI == 231
CONFIG_ZMK_HID_CONSUMER_REPORT_USAGES_BASIC == TRUE

ZMK_HID_USAGE_PAGE(usage) == (usage \div 65536) % 256
ZMK_HID_USAGE_ID(usage) == usage % 65536

\* (faulty variant: the extended ceiling whatever the build)
ConsumerCeiling_Extended(basic) == 4095

\* COND_CODE_1(IS_ENABLED(CONFIG_ZMK_HID_CONSUMER_REPORT_USAGES_BASIC), (0xFF), (0xFFF))
ConsumerCeiling(basic) == IF basic THEN 255 ELSE 4095

\* validate_hid_usage in a build with (basic) or without the basic consumer report
validate_hid_usage_in(basic, usage_page, usage_id) ==
    IF usage_page = HID_USAGE_KEY
    THEN IF usage_id = 0 \/ (usage_id > ZMK_HID_KEYBOARD_NKRO_MAX_USAGE
                             /\ usage_id < LEFT_CONTROL /\ usage_id > RIGHT_GUI)
         THEN -EINVAL ELSE 0
    ELSE IF usage_page = HID_USAGE_CONSUMER
    THEN IF usage_id > ConsumerCeiling(basic) THEN -EINVAL ELSE 0
    ELSE -EINVAL

validate_hid_usage(usage_page, usage_id) ==
    validate_hid_usage_in(CONFIG_ZMK_HID_CONSUMER_REPORT_USAGES_BASIC, usage_page, usage_id)

\* One behavior_parameter_value_metadata against param (the switch of the loop).
ValueMatches(value_meta, param) ==
    CASE value_meta.type = "NIL" -> param = 0
      [] value_meta.type = "HID_USAGE" ->
            validate_hid_usage(ZMK_HID_USAGE_PAGE(param), ZMK_HID_USAGE_ID(param)) >= 0
      [] value_meta.type = "LAYER_INDEX" -> param >= 0 /\ param < ZMK_KEYMAP_LEN
      [] value_meta.type = "VALUE" -> param = value_meta.value
      [] value_meta.type = "RANGE" -> param >= value_meta.min /\ param <= value_meta.max
      [] OTHER -> FALSE

RECURSIVE FoundMatchFrom(_, _, _)
FoundMatchFrom(v, values, param) ==
    IF v > Len(values) THEN FALSE
    ELSE IF ValueMatches(values[v], param) THEN TRUE
    ELSE FoundMatchFrom(v + 1, values, param)

zmk_behavior_validate_param_values(values, param) ==
    IF Len(values) = 0 THEN -ENODEV
    ELSE IF FoundMatchFrom(1, values, param) THEN 0 ELSE -ENOTSUP

\* (faulty variant: param1 and param2 accepted by different sets)
ValidateSetsFrom_AnySet(s, sets, param1, param2) ==
    LET ok1(k) == LET r == zmk_behavior_validate_param_values(sets[k].param1_values, param1)
                  IN r >= 0 \/ (r = -ENODEV /\ param1 = 0)
        ok2(k) == LET r == zmk_behavior_validate_param_values(sets[k].param2_values, param2)
                  IN r >= 0 \/ (r = -ENODEV /\ param2 = 0)
    IN IF (\E k \in s .. Len(sets) : ok1(k)) /\ (\E k \in s .. Len(sets) : ok2(k))
       THEN 0 ELSE -EINVAL

RECURSIVE ValidateSetsFrom(_, _, _, _)
ValidateSetsFrom(s, sets, param1, param2) ==
    IF s > Len(sets) THEN -EINVAL
    ELSE LET param1_ret == zmk_behavior_validate_param_values(sets[s].param1_values, param1)
             param2_ret == zmk_behavior_validate_param_values(sets[s].param2_values, param2)
         IN IF (param1_ret >= 0 \/ (param1_ret = -ENODEV /\ param1 = 0))
               /\ (param2_ret >= 0 \/ (param2_ret = -ENODEV /\ param2 = 0))
            THEN 0
            ELSE ValidateSetsFrom(s + 1, sets, param1, param2)

\* metadata: [present |-> the pointer is not NULL, sets |-> its sets]
zmk_behavior_validate_params_metadata(metadata, param1, param2) ==
    IF ~metadata.present \/ Len(metadata.sets) = 0
    THEN IF param1 = 0 /\ param2 = 0 THEN 0 ELSE -ENODEV
    ELSE ValidateSetsFrom(1, metadata.sets, param1, param2)

\* A const char *name: null for NULL; at = k when it points to the name stored
\* in item k's device (then str is that name), at = 0 for any other buffer.
NullName == [null |-> TRUE, at |-> 0, str |-> ""]
NameAt(k) == [null |-> FALSE, at |-> k, str |-> behaviors[k]]
NameCopy(s) == [null |-> FALSE, at |-> 0, str |-> s]
\* the behavior_dev of a binding: NULL in a zeroed binding, else a name
BindingName(dev) == IF dev = NULL THEN NullName ELSE NameCopy(dev)

\* (faulty variant: the z_device_is_ready tests left out)
behavior_get_binding_IgnoringReady(name) ==
    IF name.null \/ name.str = "" THEN 0
    ELSE LET by_ref == FirstItem({k \in Items : name.at = k})
         IN IF by_ref # 0 THEN by_ref
            ELSE FirstItem({k \in Items : behaviors[k] = name.str})

\* z_impl_behavior_get_binding: the item whose device is returned, 0 for NULL.
\* First pass: item->device->name == name; second pass: strcmp(...) == 0.
z_impl_behavior_get_binding(name) ==
    IF name.null \/ name.str = "" THEN 0
    ELSE LET by_ref == FirstItem({k \in Items : ready[k] /\ name.at = k})
         IN IF by_ref # 0 THEN by_ref
            ELSE FirstItem({k \in Items : ready[k] /\ behaviors[k] = name.str})

Nil == [type |-> "NIL", value |-> 0, min |-> 0, max |-> 0]
Value(v) == [type |-> "VALUE", value |-> v, min |-> 0, max |-> 0]
Range(lo, hi) == [type |-> "RANGE", value |-> 0, min |-> lo, max |-> hi]
LayerIndex == [type |-> "LAYER_INDEX", value |-> 0, min |-> 0, max |-> 0]
HidUsage == [type |-> "HID_USAGE", value |-> 0, min |-> 0, max |-> 0]

\* What behavior_get_parameter_metadata reports for the behaviors of Spec:
\* "a" takes param1 in 0..1 and declares nothing for param2, "b" reports no
\* sets, "c" takes (1, 1) only.
ParameterMetadata(name) ==
    CASE name = "a" -> <<[param1_values |-> <<Range(0, 1)>>, param2_values |-> <<>>]>>
      [] name = "c" -> <<[param1_values |-> <<Value(1)>>, param2_values |-> <<Value(1)>>]>>
      [] OTHER -> <<>>

\* meta_ok: whether behavior_get_parameter_metadata succeeds for the device
zmk_behavior_validate_binding(binding, meta_ok) ==
    LET behavior == z_impl_behavior_get_binding(BindingName(binding.behavior_dev))
    IN IF behavior = 0 THEN -ENODEV
       ELSE IF ~meta_ok THEN -ENOTSUP
       ELSE zmk_behavior_validate_params_metadata(
                [present |-> TRUE, sets |-> ParameterMetadata(binding.behavior_dev)],
                binding.param1, binding.param2)

\* ------------------------------------------ keymap store, layout store
Layers == 0 .. ZMK_KEYMAP_LAYERS_LEN - 1
Positions == 0 .. ZMK_KEYMAP_LEN - 1

Binding(dev, p1, p2) == [behavior_dev |-> dev, param1 |-> p1, param2 |-> p2]
ZeroBinding == Binding(NULL, 0, 0)      \* memset(&new_layer[b], 0, ...)

\* The physical layouts of the build: layout 0 has three keys, layout 1 two.
LayoutCount == 2
keys_len(layout) == IF layout = 0 THEN 3 ELSE 2

\* The value check_unsaved_changes reports.
UnsavedChanges(layout_changes, keymap_changes) == layout_changes \/ keymap_changes
Dirty == UnsavedChanges(layout_unsaved, keymap_unsaved)

\* NULL outside the keymap, else the cell (found |-> FALSE stands for NULL).
zmk_keymap_get_layer_binding_at_idx(km, layer, idx) ==
    IF layer \in Layers /\ idx \in Positions
    THEN [found |-> TRUE, binding |-> km[layer][idx]]
    ELSE [found |-> FALSE, binding |-> ZeroBinding]

\* fail: the store fails for a reason other than the location.
zmk_keymap_set_layer_binding_at_idx(km, unsaved, layer, idx, binding, fail) ==
    IF ~(layer \in Layers /\ idx \in Positions)
    THEN [ret |-> -EINVAL, keymap |-> km, unsaved |-> unsaved]
    ELSE IF fail
    THEN [ret |-> -ENOTSUP, keymap |-> km, unsaved |-> unsaved]
    ELSE [ret |-> 0, keymap |-> [km EXCEPT ![layer][idx] = binding], unsaved |-> TRUE]

\* ok: whether the layout store accepts the selection
zmk_physical_layouts_select(index, ok) ==
    IF index >= LayoutCount \/ ~ok
    THEN [ret |-> -EINVAL, selected |-> selected, unsaved |-> layout_unsaved]
    ELSE [ret |-> 0, selected |-> index, unsaved |-> TRUE]

Call(fn, a, b) == [fn |-> fn, a |-> a, b |-> b]
Response(op, code) == [op |-> op, code |-> code]

\* What every handler leaves behind: its response, the notifications it
\* raised and the collaborator calls it made.
Answer(r, n, c) ==
    /\ resp' = r
    /\ notif' = n
    /\ calls' = c
    /\ last_notified' = IF n = <<>> THEN last_notified
                        ELSE IF n[Len(n)] THEN "true" ELSE "false"
    /\ ops' = ops + 1
    /\ UNCHANGED <<alloc_vars, mig, applied>>

zmk_physical_layouts_save_selected(ok) ==
    IF ok THEN [ret |-> 0, saved |-> selected, unsaved |-> FALSE]
    ELSE [ret |-> -ENOTSUP, saved |-> selected_saved, unsaved |-> layout_unsaved]

zmk_physical_layouts_revert_selected(ok) ==
    IF ok THEN [ret |-> 0, selected |-> selected_saved, unsaved |-> FALSE]
    ELSE [ret |-> -ENOTSUP, selected |-> selected, unsaved |-> layout_unsaved]

zmk_keymap_save_changes(ok) ==
    IF ok THEN [ret |-> 0, saved |-> keymap, unsaved |-> FALSE]
    ELSE [ret |-> -ENOTSUP, saved |-> keymap_saved, unsaved |-> keymap_unsaved]

zmk_keymap_discard_changes(ok) ==
    IF ok THEN [ret |-> 0, keymap |-> keymap_saved, unsaved |-> FALSE]
    ELSE [ret |-> -ENOTSUP, keymap |-> keymap, unsaved |-> keymap_unsaved]

\* What zmk_physical_layouts_get_position_map may hand back for the new
\* layout: a failure (size < 0), or one old position or UINT32_MAX per new key.
Failed == [size |-> -1, map |-> <<>>]

PositionMapResults(new, olds) ==
    {Failed}
    \cup {[size |-> keys_len(new), map |-> m] :
            m \in [1 .. keys_len(new) -> olds \cup {UINT32_MAX}]}

\* The position maps of the build of Spec, new position -> old position: the
\* two keys of layout 1 are keys 2 and 0 of layout 0, whose key 1 has no
\* counterpart.
BuildPositionMap(old, new) ==
    IF new = 0 THEN <<1, UINT32_MAX, 0>> ELSE <<2, 0>>

\* ok: whether the layout store can produce the map
zmk_physical_layouts_get_position_map(old, new, ok) ==
    IF ok THEN [size |-> keys_len(new), map |-> BuildPositionMap(old, new)] ELSE Failed

\* ------------------------------------------------- keymap_subsystem.c
\* The first loop over b: new_layer, built from the bindings of layer l.
NewLayer(km, l, pm) ==
    [b \in 0 .. pm.size - 1 |->
        LET old_b == pm.map[b + 1]
        IN IF old_b = UINT32_MAX THEN ZeroBinding
           ELSE LET binding == zmk_keymap_get_layer_binding_at_idx(km, l, old_b)
                IN IF ~binding.found THEN ZeroBinding ELSE binding.binding]

\* The second loop over b: one store write per new position, results ignored.
\* st = [keymap, unsaved, calls]; fails: the writes the store fails.
RECURSIVE WriteLayerFrom(_, _, _, _, _, _)
WriteLayerFrom(b, st, l, new_layer, layout_size, fails) ==
    IF b >= layout_size THEN st
    ELSE LET r == zmk_keymap_set_layer_binding_at_idx(
                      st.keymap, st.unsaved, l, b, new_layer[b], <<l, b>> \in fails)
         IN WriteLayerFrom(b + 1,
                [keymap |-> r.keymap, unsaved |-> r.unsaved,
                 calls |-> Append(st.calls,
                                  Call("zmk_keymap_set_layer_binding_at_idx", l, b))],
                l, new_layer, layout_size, fails)

RECURSIVE MigrateLayersFrom(_, _, _, _)
MigrateLayersFrom(l, st, pm, fails) ==
    IF l >= ZMK_KEYMAP_LAYERS_LEN THEN st
    ELSE MigrateLayersFrom(l + 1,
            WriteLayerFrom(0, st, l, NewLayer(st.keymap, l, pm), pm.size, fails),
            pm, fails)

\* pm: what zmk_physical_layouts_get_position_map(old, new, ...) hands back
migrate_keymap(km, unsaved, old, new, pm, fails) ==
    LET st == [keymap |-> km, unsaved |-> unsaved,
               calls |-> <<Call("zmk_physical_layouts_get_position_map", old, new)>>]
    IN IF pm.size < 0 THEN st ELSE MigrateLayersFrom(0, st, pm, fails)

Notify(v) == <<v>>  \* raise_zmk_studio_rpc_notification(unsaved_changes_status_changed v)

\* (faulty variant: param1 left out of the initialiser)
RequestBinding_NoParam1(behavior_name, req) == Binding(behavior_name, 0, req.param2)

\* struct zmk_behavior_binding binding = {.behavior_dev, .param1, .param2}
RequestBinding(behavior_name, req) == Binding(behavior_name, req.param1, req.param2)

\* (faulty variant: every store failure reported as a bad location)
SetBindingError_AlwaysLocation(ret) == "INVALID_LOCATION"

\* switch (ret) of set_layer_binding
SetBindingError(ret) == IF ret = -EINVAL THEN "INVALID_LOCATION" ELSE "GENERIC"

\* (faulty variant: the early return for an unchanged layout left out)
LayoutUnchanged_Never(old, index) == FALSE

\* if (old == index)
LayoutUnchanged(old, index) == old = index

set_layer_binding(req, meta_ok, store_fail) ==
    LET bid == req.behavior_id
        behavior_name == zmk_behavior_find_behavior_name_from_local_id(bid)
        binding == RequestBinding(behavior_name, req)
        ret == zmk_behavior_validate_binding(binding, meta_ok)
        w == zmk_keymap_set_layer_binding_at_idx(
                 keymap, keymap_unsaved, req.layer, req.key_position, binding, store_fail)
        write == <<Call("zmk_keymap_set_layer_binding_at_idx", req.layer, req.key_position)>>
    IN IF behavior_name = NULL
       THEN /\ Answer(Response("set_layer_binding", "INVALID_BEHAVIOR"), <<>>, <<>>)
            /\ UNCHANGED store_vars
       ELSE IF ret < 0
       THEN /\ Answer(Response("set_layer_binding", "INVALID_PARAMETERS"), <<>>, <<>>)
            /\ UNCHANGED store_vars
       ELSE IF w.ret < 0
       THEN /\ Answer(Response("set_layer_binding", SetBindingError(w.ret)), <<>>, write)
            /\ keymap' = w.keymap
            /\ keymap_unsaved' = w.unsaved
            /\ UNCHANGED <<keymap_saved, selected, selected_saved, layout_unsaved>>
       ELSE /\ Answer(Response("set_layer_binding", "SUCCESS"), Notify(TRUE), write)
            /\ keymap' = w.keymap
            /\ keymap_unsaved' = w.unsaved
            /\ UNCHANGED <<keymap_saved, selected, selected_saved, layout_unsaved>>

check_unsaved_changes ==
    /\ Answer(Response("check_unsaved_changes",
                       IF UnsavedChanges(layout_unsaved, keymap_unsaved)
                       THEN "true" ELSE "false"),
              <<>>,
              <<Call("zmk_physical_layouts_check_unsaved_selection", 0, 0),
                Call("zmk_keymap_check_unsaved_changes", 0, 0)>>)
    /\ UNCHANGED store_vars

\* (faulty variant: the result of a step not looked at)
StepFailed_Never(ret) == FALSE

\* if (ret < 0) { return ZMK_RPC_SIMPLE_ERR(GENERIC); }
StepFailed(ret) == ret < 0

save_changes(layout_ok, keymap_ok) ==
    LET l == zmk_physical_layouts_save_selected(layout_ok)
        k == zmk_keymap_save_changes(keymap_ok)
        c1 == <<Call("zmk_physical_layouts_save_selected", 0, 0)>>
        c2 == Append(c1, Call("zmk_keymap_save_changes", 0, 0))
    IN IF StepFailed(l.ret)
       THEN /\ Answer(Response("save_changes", "GENERIC"), <<>>, c1)
            /\ selected_saved' = l.saved
            /\ layout_unsaved' = l.unsaved
            /\ UNCHANGED <<keymap, keymap_saved, keymap_unsaved, selected>>
       ELSE /\ selected_saved' = l.saved
            /\ layout_unsaved' = l.unsaved
            /\ keymap_saved' = k.saved
            /\ keymap_unsaved' = k.unsaved
            /\ UNCHANGED <<keymap, selected>>
            /\ IF StepFailed(k.ret)
               THEN Answer(Response("save_changes", "GENERIC"), <<>>, c2)
               ELSE Answer(Response("save_changes", "true"), Notify(FALSE), c2)

discard_changes(layout_ok, keymap_ok) ==
    LET l == zmk_physical_layouts_revert_selected(layout_ok)
        k == zmk_keymap_discard_changes(keymap_ok)
        c1 == <<Call("zmk_physical_layouts_revert_selected", 0, 0)>>
        c2 == Append(c1, Call("zmk_keymap_discard_changes", 0, 0))
    IN IF StepFailed(l.ret)
       THEN /\ Answer(Response("discard_changes", "GENERIC"), <<>>, c1)
            /\ selected' = l.selected
            /\ layout_unsaved' = l.unsaved
            /\ UNCHANGED <<keymap, keymap_saved, keymap_unsaved, selected_saved>>
       ELSE /\ selected' = l.selected
            /\ layout_unsaved' = l.unsaved
            /\ keymap' = k.keymap
            /\ keymap_unsaved' = k.unsaved
            /\ UNCHANGED <<keymap_saved, selected_saved>>
            /\ IF StepFailed(k.ret)
               THEN Answer(Response("discard_changes", "GENERIC"), <<>>, c2)
               ELSE Answer(Response("discard_changes", "true"), Notify(FALSE), c2)

\* req: the requested index as sent; the handler casts it to uint8_t.
set_active_physical_layout(req, select_ok, pm, fails) ==
    LET index == Uint8(req)
        old == selected
        s == zmk_physical_layouts_select(index, select_ok)
        c1 == <<Call("zmk_physical_layouts_select", index, 0)>>
        m == migrate_keymap(keymap, keymap_unsaved, old, s.selected, pm, fails)
    IN IF LayoutUnchanged(old, index)
       THEN /\ Answer(Response("set_active_physical_layout", "ok"), <<>>, <<>>)
            /\ UNCHANGED store_vars
       ELSE /\ selected' = s.selected
            /\ layout_unsaved' = s.unsaved
            /\ UNCHANGED <<keymap_saved, selected_saved>>
            /\ IF s.ret >= 0
               THEN /\ keymap' = m.keymap
                    /\ keymap_unsaved' = m.unsaved
                    /\ Answer(Response("set_active_physical_layout", "ok"),
                              Notify(TRUE),
                              c1 \o <<Call("migrate_keymap", old, 0)>> \o m.calls)
               ELSE /\ UNCHANGED <<keymap, keymap_unsaved>>
                    /\ Answer(Response("set_active_physical_layout", "err_GENERIC"),
                              Notify(TRUE), c1)

\* ------------------------------------------------------ initial states
\* Sequences of distinct names (check_behavior_names: names must be unique).
RECURSIVE DistinctSeqs(_, _)
DistinctSeqs(S, n) ==
    IF n = 0 THEN {<<>>}
    ELSE {<<>>} \cup {<<x>> \o t : x \in S, t \in DistinctSeqs(S, n - 1)}

Registrations ==
    {b \in DistinctSeqs(Names, Cardinality(Names)) :
        /\ Len(b) >= 1
        /\ \A i, j \in DOMAIN b : i # j => b[i] # b[j]}

\* Persisted stores: at most MaxStore entries, one name per key and one key per
\* name (what boots that read their ids back leave behind).
RECURSIVE StoresUpTo(_)
StoresUpTo(n) ==
    IF n = 0 THEN {{}}
    ELSE LET smaller == StoresUpTo(n - 1)
         IN smaller \cup
            UNION {{s \cup {e} : e \in {x \in [key : StoredKeys, val : StoredNames] :
                                            \A f \in s : x.key # f.key /\ x.val # f.val}} :
                   s \in smaller}

Stores == StoresUpTo(MaxStore)

\* The keymap the firmware is built with.
KeymapOf(layer0, layer1) ==
    [l \in Layers |-> [b \in Positions |-> IF l = 0 THEN layer0[b + 1] ELSE layer1[b + 1]]]

DefaultKeymap ==
    KeymapOf(<<Binding("a", 0, 0), Binding("a", 1, 0), Binding("b", 0, 0)>>,
             <<Binding("c", 1, 1), Binding("b", 0, 0), Binding("a", 1, 0)>>)

NoMigration == [ran |-> FALSE, pre |-> DefaultKeymap, old |-> 0,
                pm |-> [size |-> -1, map |-> <<>>], fails |-> {}]

\* The settings handler has run once only.
NoRun == [done |-> FALSE, ids |-> <<>>, largest |-> 0, store |-> {}]

\* No pure function applied yet.
NoValidation == [fn |-> "none", in |-> <<>>, ret |-> 0]

InitStores ==
    /\ keymap = DefaultKeymap
    /\ keymap_saved = DefaultKeymap
    /\ keymap_unsaved = FALSE
    /\ selected = 0
    /\ selected_saved = 0
    /\ layout_unsaved = FALSE

InitRpc ==
    /\ resp = Response("none", "none")
    /\ notif = <<>>
    /\ calls = <<>>
    /\ last_notified = "none"
    /\ ops = 0

\* The allocator after a boot of firmware b (devices ready as in r) on an
\* empty store.
Booted(b, r) ==
    /\ behaviors = b
    /\ ready = r
    /\ LET c == behavior_handle_commit([i \in DOMAIN b |-> 0], 0, {})
       IN /\ local_id = c.ids
          /\ largest_local_id = c.largest
          /\ settings = c.store
    /\ pending = {}
    /\ replayed = <<>>
    /\ boot_settings = {}
    /\ alloc_pc = "ready"
    /\ persisted = settings
    /\ boots = 1
    /\ first_run = NoRun

\* ---------------------------------------------------------- SpecAlloc
InitAlloc ==
    /\ behaviors \in Registrations
    /\ ready \in [DOMAIN behaviors -> BOOLEAN]
    /\ local_id = [i \in DOMAIN behaviors |-> 0]
    /\ largest_local_id = 0
    /\ settings \in Stores
    /\ pending = {}
    /\ replayed = <<>>
    /\ boot_settings = settings
    /\ alloc_pc = "boot"
    /\ persisted = settings
    /\ boots = 1
    /\ first_run = NoRun
    /\ InitStores /\ InitRpc /\ mig = NoMigration /\ applied = NoValidation

\* behavior_local_id_init: settings_load_subtree("behavior") starts handing
\* the persisted entries to behavior_handle_set, in the backend's order.
behavior_local_id_init ==
    /\ alloc_pc = "boot"
    /\ pending' = settings
    /\ alloc_pc' = "replay"
    /\ UNCHANGED <<behaviors, ready, local_id, largest_local_id, settings, replayed,
                   boot_settings, persisted, boots, first_run, store_vars, rpc_vars, mig,
                   applied>>

HandleSet ==
    /\ alloc_pc = "replay"
    /\ \E e \in pending :
        LET r == behavior_handle_set(local_id, largest_local_id, e)
        IN /\ local_id' = r.ids
           /\ largest_local_id' = r.largest
           /\ pending' = pending \ {e}
           /\ replayed' = Append(replayed, e)
    /\ UNCHANGED <<behaviors, ready, settings, boot_settings, alloc_pc,
                   persisted, boots, first_run, store_vars, rpc_vars, mig, applied>>

HandleCommit ==
    /\ alloc_pc = "replay"
    /\ pending = {}
    /\ LET c == behavior_handle_commit(local_id, largest_local_id, settings)
       IN /\ local_id' = c.ids
          /\ largest_local_id' = c.largest
          /\ settings' = c.store
          /\ persisted' = persisted \cup c.store
    /\ alloc_pc' = "ready"
    /\ UNCHANGED <<behaviors, ready, pending, replayed, boot_settings, boots, first_run,
                   store_vars, rpc_vars, mig, applied>>

NextAlloc == behavior_local_id_init \/ HandleSet \/ HandleCommit

SpecAlloc == InitAlloc /\ [][NextAlloc]_vars

\* ---------------------------------------------------------------- Spec
\* Requests: every id up to the largest assigned one (0 is carried by no
\* behavior), parameters some behavior accepts and some it does not, one cell
\* of the keymap, a layer and a position outside it.
RequestParams == {<<0, 0>>, <<1, 0>>, <<1, 1>>}
RequestLocations ==
    {<<ZMK_KEYMAP_LAYERS_LEN - 1, ZMK_KEYMAP_LEN - 1>>,
     <<ZMK_KEYMAP_LAYERS_LEN, 0>>, <<0, ZMK_KEYMAP_LEN>>}
SetLayerBindingRequests ==
    {[behavior_id |-> id, param1 |-> p[1], param2 |-> p[2],
      layer |-> at[1], key_position |-> at[2]] :
        id \in 0 .. 3, p \in RequestParams, at \in RequestLocations}

\* What the collaborators of set_layer_binding do: all succeed, the metadata
\* query fails, or the store write fails.
SetLayerBindingOutcomes == {<<TRUE, FALSE>>, <<FALSE, FALSE>>, <<TRUE, TRUE>>}

LayoutRequests == {0, 1, 2, 256}

WriteFailures ==
    {f \in SUBSET (Layers \X Positions) : Cardinality(f) <= MaxWriteFailures}

Init ==
    /\ Booted(<<"a", "b", "c">>, <<TRUE, TRUE, FALSE>>)
    /\ InitStores /\ InitRpc /\ mig = NoMigration /\ applied = NoValidation

SetLayerBinding ==
    /\ ops < MaxOps
    /\ \E req \in SetLayerBindingRequests, env \in SetLayerBindingOutcomes :
        set_layer_binding(req, env[1], env[2])

CheckUnsavedChanges == ops < MaxOps /\ check_unsaved_changes

SaveChanges ==
    /\ ops < MaxOps
    /\ \E layout_ok \in BOOLEAN, keymap_ok \in BOOLEAN : save_changes(layout_ok, keymap_ok)

DiscardChanges ==
    /\ ops < MaxOps
    /\ \E layout_ok \in BOOLEAN, keymap_ok \in BOOLEAN : discard_changes(layout_ok, keymap_ok)

\* What the collaborators of set_active_physical_layout do: the selection
\* fails, the position map fails, or some of the store writes fail.
LayoutOutcomes ==
    {<<FALSE, FALSE, {}>>, <<TRUE, FALSE, {}>>} \cup {<<TRUE, TRUE, f>> : f \in WriteFailures}

SetActivePhysicalLayout ==
    /\ ops < MaxOps
    /\ \E req \in LayoutRequests, env \in LayoutOutcomes :
            set_active_physical_layout(
                req, env[1],
                zmk_physical_layouts_get_position_map(selected, Uint8(req), env[2]),
                env[3])

Next ==
    \/ SetLayerBinding
    \/ CheckUnsavedChanges
    \/ SaveChanges
    \/ DiscardChanges
    \/ SetActivePhysicalLayout

Spec == Init /\ [][Next]_vars

\* ---------------------------------------------------------- SpecMigrate
\* migrate_keymap alone: the new layout is selected already; the keymap, the
\* position map and the writes the store fails are arbitrary. Old positions
\* range over the keymap and one position past it (where no binding exists).
MigrateKeymaps ==
    {DefaultKeymap,
     KeymapOf(<<ZeroBinding, Binding("a", 0, 0), Binding("a", 0, 0)>>,
              <<Binding("b", 0, 0), ZeroBinding, Binding("c", 1, 1)>>)}

InitMigrate ==
    /\ Booted(<<"a", "b", "c">>, <<TRUE, TRUE, FALSE>>)
    /\ keymap \in MigrateKeymaps
    /\ keymap_saved = DefaultKeymap
    /\ keymap_unsaved = (keymap # DefaultKeymap)
    /\ selected \in 0 .. LayoutCount - 1
    /\ selected_saved = selected
    /\ layout_unsaved = TRUE
    /\ InitRpc
    /\ mig = [NoMigration EXCEPT !.pre = keymap]
    /\ applied = NoValidation

MigrateKeymap ==
    /\ ~mig.ran
    /\ \E old \in (0 .. LayoutCount - 1) \ {selected},
          pm \in PositionMapResults(selected, 0 .. ZMK_KEYMAP_LEN),
          fails \in WriteFailures :
        LET m == migrate_keymap(keymap, keymap_unsaved, old, selected, pm, fails)
        IN /\ keymap' = m.keymap
           /\ keymap_unsaved' = m.unsaved
           /\ calls' = m.calls
           /\ mig' = [ran |-> TRUE, pre |-> keymap, old |-> old, pm |-> pm,
                      fails |-> fails]
    /\ UNCHANGED <<alloc_vars, keymap_saved, selected, selected_saved, layout_unsaved,
                   resp, notif, last_notified, ops, applied>>

NextMigrate == MigrateKeymap

SpecMigrate == InitMigrate /\ [][NextMigrate]_vars

\* ---------------------------------------------------------- SpecReboot
\* Boots one after another on the same store: between two boots the firmware
\* may be rebuilt with other behaviors; RAM starts over (every local_id and
\* largest_local_id at their static initial value 0), the store is kept.
RebootStores == {s \in Stores : Cardinality(s) <= 1}

InitReboot ==
    /\ behaviors \in Registrations
    /\ ready = [i \in DOMAIN behaviors |-> TRUE]
    /\ local_id = [i \in DOMAIN behaviors |-> 0]
    /\ largest_local_id = 0
    /\ settings \in RebootStores
    /\ pending = {}
    /\ replayed = <<>>
    /\ boot_settings = settings
    /\ alloc_pc = "boot"
    /\ persisted = settings
    /\ boots = 1
    /\ first_run = NoRun
    /\ InitStores /\ InitRpc /\ mig = NoMigration /\ applied = NoValidation

Reboot ==
    /\ alloc_pc = "ready"
    /\ boots < MaxBoots
    /\ \E b \in Registrations :
        /\ behaviors' = b
        /\ ready' = [i \in DOMAIN b |-> TRUE]
        /\ local_id' = [i \in DOMAIN b |-> 0]
    /\ largest_local_id' = 0
    /\ pending' = {}
    /\ replayed' = <<>>
    /\ boot_settings' = settings
    /\ alloc_pc' = "boot"
    /\ boots' = boots + 1
    /\ UNCHANGED <<settings, persisted, first_run, store_vars, rpc_vars, mig, applied>>

NextReboot == behavior_local_id_init \/ HandleSet \/ HandleCommit \/ Reboot

SpecReboot == InitReboot /\ [][NextReboot]_vars

\* ------------------------------------------------------------ SpecRerun
\* The handler registered by SETTINGS_STATIC_HANDLER_DEFINE run a second time
\* with the same registered behaviors, on the store its first run left: either
\* the settings are loaded again in the same power cycle (item->local_id and
\* largest_local_id keep their values), or the device restarts (they start
\* over at 0).
InitRerun ==
    /\ behaviors \in Registrations
    /\ ready = [i \in DOMAIN behaviors |-> TRUE]
    /\ local_id = [i \in DOMAIN behaviors |-> 0]
    /\ largest_local_id = 0
    /\ settings \in Stores
    /\ pending = {}
    /\ replayed = <<>>
    /\ boot_settings = settings
    /\ alloc_pc = "boot"
    /\ persisted = settings
    /\ boots = 1
    /\ first_run = NoRun
    /\ InitStores /\ InitRpc /\ mig = NoMigration /\ applied = NoValidation

FirstRunLeft == [done |-> TRUE, ids |-> local_id, largest |-> largest_local_id,
                 store |-> settings]

\* a further settings load in the same power cycle
Reload ==
    /\ alloc_pc = "ready"
    /\ boots < MaxBoots
    /\ first_run' = FirstRunLeft
    /\ pending' = settings
    /\ replayed' = <<>>
    /\ boot_settings' = settings
    /\ alloc_pc' = "replay"
    /\ boots' = boots + 1
    /\ UNCHANGED <<behaviors, ready, local_id, largest_local_id, settings, persisted,
                   store_vars, rpc_vars, mig, applied>>

\* a restart of the same firmware
Restart ==
    /\ alloc_pc = "ready"
    /\ boots < MaxBoots
    /\ first_run' = FirstRunLeft
    /\ local_id' = [i \in DOMAIN behaviors |-> 0]
    /\ largest_local_id' = 0
    /\ pending' = {}
    /\ replayed' = <<>>
    /\ boot_settings' = settings
    /\ alloc_pc' = "boot"
    /\ boots' = boots + 1
    /\ UNCHANGED <<behaviors, ready, settings, persisted, store_vars, rpc_vars, mig,
                   applied>>

NextRerun == behavior_local_id_init \/ HandleSet \/ HandleCommit \/ Reload \/ Restart

SpecRerun == InitRerun /\ [][NextRerun]_vars

\* -------------------------------------------------------- SpecValidate
\* The validation and lookup functions of behavior.c, each applied once to an
\* input drawn from the sets below, on a registry of three behaviors whose
\* devices are ready or not.
SeqsUpTo(S, n) == UNION {[1 .. k -> S] : k \in 0 .. n}

Usage(page, id) == page * 65536 + id

\* page Key, page Consumer and a page that is neither
UsagePages == {HID_USAGE_KEY, HID_USAGE_CONSUMER, 1}
\* ids around 0, the NKRO maximum, the modifier range and both ceilings
UsageIds ==
    {0, 1, ZMK_HID_KEYBOARD_NKRO_MAX_USAGE, ZMK_HID_KEYBOARD_NKRO_MAX_USAGE + 1,
     LEFT_CONTROL - 1, LEFT_CONTROL, RIGHT_GUI, RIGHT_GUI + 1,
     255, 256, 4095, 4096}

ValueSpecs == {Nil, Value(1), Range(1, 2), LayerIndex, HidUsage}
ValueLists == SeqsUpTo(ValueSpecs, MaxSpecs)
\* small numbers, a usage of page Key and a usage of an unknown page
ParamValues == {0, 1, 2, 3, Usage(HID_USAGE_KEY, 4), Usage(1, 4)}

SetValueLists == {<<>>, <<Value(1)>>, <<Value(2)>>}
ParamSets == [param1_values : SetValueLists, param2_values : SetValueLists]
Metadatas ==
    {[present |-> FALSE, sets |-> <<>>]} \cup
    {[present |-> TRUE, sets |-> sets] : sets \in SeqsUpTo(ParamSets, MaxSets)}
BindingParams == 0 .. 2

LookupNames ==
    {NullName} \cup {NameAt(k) : k \in Items} \cup
    {NameCopy(s) : s \in Names \cup {"z", ""}}

InitValidate ==
    /\ \E r \in [1 .. 3 -> BOOLEAN] : Booted(<<"a", "b", "c">>, r)
    /\ InitStores /\ InitRpc /\ mig = NoMigration /\ applied = NoValidation

ValidateHidUsage ==
    /\ applied.fn = "none"
    /\ \E basic \in BOOLEAN, usage_page \in UsagePages, usage_id \in UsageIds :
        applied' = [fn |-> "validate_hid_usage", in |-> <<basic, usage_page, usage_id>>,
                    ret |-> validate_hid_usage_in(basic, usage_page, usage_id)]
    /\ UNCHANGED <<alloc_vars, store_vars, rpc_vars, mig>>

ValidateParamValues ==
    /\ applied.fn = "none"
    /\ \E values \in ValueLists, param \in ParamValues :
        applied' = [fn |-> "zmk_behavior_validate_param_values", in |-> <<values, param>>,
                    ret |-> zmk_behavior_validate_param_values(values, param)]
    /\ UNCHANGED <<alloc_vars, store_vars, rpc_vars, mig>>

ValidateParamsMetadata ==
    /\ applied.fn = "none"
    /\ \E metadata \in Metadatas, param1 \in BindingParams, param2 \in BindingParams :
        applied' = [fn |-> "zmk_behavior_validate_params_metadata",
                    in |-> <<metadata, param1, param2>>,
                    ret |-> zmk_behavior_validate_params_metadata(metadata, param1, param2)]
    /\ UNCHANGED <<alloc_vars, store_vars, rpc_vars, mig>>

BehaviorGetBinding ==
    /\ applied.fn = "none"
    /\ \E name \in LookupNames :
        applied' = [fn |-> "behavior_get_binding", in |-> <<name>>,
                    ret |-> z_impl_behavior_get_binding(name)]
    /\ UNCHANGED <<alloc_vars, store_vars, rpc_vars, mig>>

NextValidate ==
    \/ ValidateHidUsage
    \/ ValidateParamValues
    \/ ValidateParamsMetadata
    \/ BehaviorGetBinding

SpecValidate == InitValidate /\ [][NextValidate]_vars

\* ================================================================ claims
\* Vocabulary of the claims, stated on the state and not through the handlers.
Carried(id) == \E i \in Items : ready[i] /\ local_id[i] = id
CarrierName(id) ==
    behaviors[CHOOSE i \in Items :
                 /\ ready[i] /\ local_id[i] = id
                 /\ \A j \in Items : ready[j] /\ local_id[j] = id => i <= j]
InKeymap(layer, position) == layer \in Layers /\ position \in Positions
Made(fn) == \E k \in DOMAIN calls : calls[k].fn = fn
TimesMade(fn) == Cardinality({k \in DOMAIN calls : calls[k].fn = fn})
Untouched == UNCHANGED store_vars /\ Dirty' = Dirty

\* C1: set_layer_binding with a behavior_id that no ready behavior carries
\* answers INVALID_BEHAVIOR, writes nothing to the keymap store, raises no
\* notification and leaves the dirty flag as it was, whatever the layer,
\* position and parameters of the request.
C1_UnknownBehaviorRejected ==
    [][resp'.op = "set_layer_binding" =>
       \A req \in SetLayerBindingRequests, env \in SetLayerBindingOutcomes :
          (~Carried(req.behavior_id) /\ set_layer_binding(req, env[1], env[2]))
          => /\ resp' = Response("set_layer_binding", "INVALID_BEHAVIOR")
             /\ calls' = <<>>
             /\ notif' = <<>>
             /\ last_notified' = last_notified
             /\ Untouched]_vars

\* an edit is pending and the next request names an id nobody carries
C1_Witness ==
    /\ resp = Response("set_layer_binding", "INVALID_BEHAVIOR")
    /\ keymap_unsaved
    /\ ops = 2

\* C2: for a known behavior_id, a binding the validator rejects answers
\* INVALID_PARAMETERS without any store call; a location the store rejects
\* answers INVALID_LOCATION; another store failure answers GENERIC; and in all
\* three no notification is raised and keymap and dirty flag stay as they were.
C2_ErrorResponses ==
    [][resp'.op = "set_layer_binding" =>
       \A req \in SetLayerBindingRequests, env \in SetLayerBindingOutcomes :
          (Carried(req.behavior_id) /\ set_layer_binding(req, env[1], env[2]))
          => LET binding == Binding(CarrierName(req.behavior_id), req.param1, req.param2)
                 rejected == zmk_behavior_validate_binding(binding, env[1]) < 0
                 located == InKeymap(req.layer, req.key_position)
             IN /\ rejected =>
                    /\ resp' = Response("set_layer_binding", "INVALID_PARAMETERS")
                    /\ calls' = <<>>
                /\ (~rejected /\ ~located) =>
                    resp' = Response("set_layer_binding", "INVALID_LOCATION")
                /\ (~rejected /\ located /\ env[2]) =>
                    resp' = Response("set_layer_binding", "GENERIC")
                /\ (rejected \/ ~located \/ env[2]) =>
                    /\ notif' = <<>>
                    /\ last_notified' = last_notified
                    /\ Untouched]_vars

\* the store failed a write to a cell of the keymap while an edit was pending
C2_Witness ==
    /\ resp = Response("set_layer_binding", "GENERIC")
    /\ Made("zmk_keymap_set_layer_binding_at_idx")
    /\ keymap_unsaved

\* C3: a request that passes id resolution, validation and the store write
\* answers SUCCESS, leaves exactly (resolved name, param1, param2) in the cell
\* (layer, key_position), changes no other cell, sets the dirty flag and
\* raises exactly one unsaved_changes_status_changed(true).
C3_SuccessfulWrite ==
    [][resp'.op = "set_layer_binding" =>
       \A req \in SetLayerBindingRequests, env \in SetLayerBindingOutcomes :
          (/\ Carried(req.behavior_id)
           /\ InKeymap(req.layer, req.key_position)
           /\ ~env[2]
           /\ zmk_behavior_validate_binding(
                  Binding(CarrierName(req.behavior_id), req.param1, req.param2),
                  env[1]) >= 0
           /\ set_layer_binding(req, env[1], env[2]))
          => /\ resp' = Response("set_layer_binding", "SUCCESS")
             /\ keymap'[req.layer][req.key_position] =
                    Binding(CarrierName(req.behavior_id), req.param1, req.param2)
             /\ \A l \in Layers, b \in Positions :
                    <<l, b>> # <<req.layer, req.key_position>>
                    => keymap'[l][b] = keymap[l][b]
             /\ Dirty'
             /\ notif' = <<TRUE>>
             /\ UNCHANGED <<keymap_saved, selected, selected_saved>>]_vars

\* a cell of the last layer now holds ("a", 1, 0), which the build did not put there
C3_Witness ==
    /\ resp = Response("set_layer_binding", "SUCCESS")
    /\ notif = <<TRUE>>
    /\ keymap[ZMK_KEYMAP_LAYERS_LEN - 1][ZMK_KEYMAP_LEN - 1] = Binding("a", 0, 0)
    /\ Dirty

MadeIn(c, fn) == \E k \in DOMAIN c : c[k].fn = fn
SelectionFails(index, select_ok) == index >= LayoutCount \/ ~select_ok

\* C4: when save_changes fails mid-sequence (the layout selection is persisted,
\* persisting the keymap fails) it answers the generic error, raises no
\* notification, and the dirty flag is still true afterwards.
C4_SaveFailsMidSequence ==
    [][(Dirty /\ save_changes(TRUE, FALSE))
       => /\ resp' = Response("save_changes", "GENERIC")
          /\ notif' = <<>>
          /\ last_notified' = last_notified
          /\ Dirty']_vars

\* C5: save_changes and discard_changes are all-or-nothing: whenever either
\* answers an error, the layout selection (saved, current, unsaved status) and
\* the keymap (saved, current, unsaved status) are what they were before.
C5_AllOrNothing ==
    [][\A layout_ok \in BOOLEAN, keymap_ok \in BOOLEAN :
          (/\ save_changes(layout_ok, keymap_ok) \/ discard_changes(layout_ok, keymap_ok)
           /\ resp'.code = "GENERIC")
          => UNCHANGED store_vars]_vars

\* C6: set_active_physical_layout whose selection fails answers the error
\* result GENERIC, runs no migration, writes no keymap cell, raises no
\* notification and leaves the dirty flag as it was.
C6_SelectionFailure ==
    [][resp'.op = "set_active_physical_layout" =>
       \A req \in LayoutRequests, env \in LayoutOutcomes :
          (/\ Uint8(req) # selected
           /\ SelectionFails(Uint8(req), env[1])
           /\ set_active_physical_layout(
                  req, env[1],
                  zmk_physical_layouts_get_position_map(selected, Uint8(req), env[2]),
                  env[3]))
          => /\ resp' = Response("set_active_physical_layout", "err_GENERIC")
             /\ ~MadeIn(calls', "migrate_keymap")
             /\ ~MadeIn(calls', "zmk_keymap_set_layer_binding_at_idx")
             /\ notif' = <<>>
             /\ Dirty' = Dirty]_vars

\* C7: set_active_physical_layout with the index already selected calls
\* neither the selection nor the migrator, writes no cell, raises nothing,
\* leaves the dirty flag and answers ok; with another index whose selection
\* succeeds, that layout is selected, the migrator runs once with the previous
\* layout as old, the dirty flag is true and one
\* unsaved_changes_status_changed(true) is raised.
C7_LayoutSwitch ==
    [][resp'.op = "set_active_physical_layout" =>
       \A req \in LayoutRequests, env \in LayoutOutcomes :
          set_active_physical_layout(
              req, env[1],
              zmk_physical_layouts_get_position_map(selected, Uint8(req), env[2]),
              env[3])
          => /\ (req = selected) =>
                    /\ resp' = Response("set_active_physical_layout", "ok")
                    /\ calls' = <<>>
                    /\ notif' = <<>>
                    /\ last_notified' = last_notified
                    /\ Untouched
             /\ (Uint8(req) # selected /\ ~SelectionFails(Uint8(req), env[1])) =>
                    /\ resp' = Response("set_active_physical_layout", "ok")
                    /\ selected' = Uint8(req)
                    /\ calls'[1] = Call("zmk_physical_layouts_select", Uint8(req), 0)
                    /\ calls'[2] = Call("migrate_keymap", selected, 0)
                    /\ Cardinality({k \in DOMAIN calls' : calls'[k].fn = "migrate_keymap"}) = 1
                    /\ Dirty'
                    /\ notif' = <<TRUE>>]_vars

\* the layout was switched and its keymap migrated, then the same index is
\* requested again
C7_Witness ==
    /\ resp = Response("set_active_physical_layout", "ok")
    /\ calls = <<>>
    /\ selected = 1
    /\ layout_unsaved
    /\ ops = 2

\* what migration is to leave in cell (l, b), given the keymap before it
MigratedCell(pre, l, b, pm) ==
    IF b >= pm.size THEN pre[l][b]
    ELSE IF pm.map[b + 1] # UINT32_MAX /\ InKeymap(l, pm.map[b + 1])
    THEN pre[l][pm.map[b + 1]]
    ELSE ZeroBinding

\* C8: after migration with position map M of length n, every cell (l, b) with
\* b < n holds the pre-migration cell (l, M[b]) when M[b] is not the sentinel
\* and a binding exists there, the all-zero binding otherwise, for every map
\* (permutations and overwritten sources included); cells at positions >= n
\* are not written.
C8_MigratedCells ==
    (mig.ran /\ mig.pm.size >= 0)
    => /\ \A l \in Layers, b \in Positions :
            keymap[l][b] = MigratedCell(mig.pre, l, b, mig.pm)
       /\ \A k \in DOMAIN calls :
            calls[k].fn = "zmk_keymap_set_layer_binding_at_idx" => calls[k].b < mig.pm.size

\* What holds of migrate_keymap as written: the cells whose write the store
\* accepted hold the migrated binding, the others keep their old one.
MigratedWhereWritten ==
    (mig.ran /\ mig.pm.size >= 0)
    => \A l \in Layers, b \in Positions :
            keymap[l][b] = IF <<l, b>> \in mig.fails THEN mig.pre[l][b]
                           ELSE MigratedCell(mig.pre, l, b, mig.pm)

\* C9 (as stated): a boot with N registered behaviors and an empty store gives
\* the i-th registered behavior the id i and persists (i, its name), and
\* afterwards find_behavior_name_from_local_id(i) is that name and get_local_id
\* of that name is i, for every i in 1..N.
C9_FreshBootIds ==
    (alloc_pc = "ready" /\ boot_settings = {})
    => \A i \in DOMAIN behaviors :
          /\ local_id[i] = i
          /\ [key |-> SettingKey(i), val |-> behaviors[i]] \in settings
          /\ zmk_behavior_find_behavior_name_from_local_id(i) = behaviors[i]
          /\ zmk_behavior_get_local_id(behaviors[i]) = i

\* C9 (amended): a boot with N registered behaviors and an empty store gives
\* the i-th registered behavior the id i and persists exactly the pairs
\* (i, its name); the two lookups give the name for i and i for the name when
\* the behavior's device is ready, and NULL and UINT16_MAX when it is not.
C9_FreshBootIdsOfReady ==
    (alloc_pc = "ready" /\ boot_settings = {})
    => /\ \A i \in DOMAIN behaviors :
            /\ local_id[i] = i
            /\ [key |-> SettingKey(i), val |-> behaviors[i]] \in settings
            /\ zmk_behavior_find_behavior_name_from_local_id(i) =
                    IF ready[i] THEN behaviors[i] ELSE NULL
            /\ zmk_behavior_get_local_id(behaviors[i]) =
                    IF ready[i] THEN i ELSE UINT16_MAX
       /\ Cardinality(settings) = Len(behaviors)
       /\ largest_local_id = Len(behaviors)

\* three behaviors booted on an empty store, the second one's device not ready
C9_Witness ==
    /\ alloc_pc = "ready"
    /\ boot_settings = {}
    /\ Len(behaviors) = 3
    /\ ready = <<TRUE, FALSE, TRUE>>
    /\ local_id = <<1, 2, 3>>
    /\ Cardinality(settings) = 3

Registered(name) == \E i \in DOMAIN behaviors : behaviors[i] = name

\* The ids and counter after replaying, in order, the entries of es that name
\* a registered behavior.
RECURSIVE ReplayRegistered(_, _, _, _)
ReplayRegistered(k, ids, largest, es) ==
    IF k > Len(es) THEN [ids |-> ids, largest |-> largest]
    ELSE IF ~Registered(es[k].val) THEN ReplayRegistered(k + 1, ids, largest, es)
    ELSE LET r == behavior_handle_set(ids, largest, es[k])
         IN ReplayRegistered(k + 1, r.ids, r.largest, es)

\* C10: a persisted entry naming no registered behavior is dropped: during
\* replay and after the fill phase every LocalId and the counter the fill phase
\* allocates from are what the same boot gives without those entries.
C10_UnregisteredEntryDropped ==
    LET unassigned == [i \in DOMAIN behaviors |-> 0]
        without == ReplayRegistered(1, unassigned, 0, replayed)
        fill == behavior_handle_commit(
                    without.ids, without.largest,
                    {e \in boot_settings : Registered(e.val)})
    IN /\ alloc_pc = "replay" =>
            /\ local_id = without.ids
            /\ largest_local_id = without.largest
       /\ alloc_pc = "ready" =>
            /\ local_id = fill.ids
            /\ largest_local_id = fill.largest

\* the store held (255, "z") for a behavior that is not registered, next to a
\* registered one, and the fill phase has allocated an id
C10_Witness ==
    /\ alloc_pc = "ready"
    /\ [key |-> 255, val |-> "z"] \in boot_settings
    /\ \E e \in boot_settings : Registered(e.val) /\ e.key = 1
    /\ Len(behaviors) >= 2
    /\ \E i \in DOMAIN behaviors : local_id[i] = 2
    /\ largest_local_id < 255

\* C11: once the boot phase is complete, whatever the store held and whichever
\* behaviors are registered, no two registered behaviors carry the same id,
\* every registered behavior carries a non-zero id, and
\* find_behavior_name_from_local_id(get_local_id(name)) = name for every
\* registered name.
C11_Bijection ==
    alloc_pc = "ready"
    => /\ \A i, j \in Items : i # j => local_id[i] # local_id[j]
       /\ \A i \in Items :
            /\ local_id[i] # 0
            /\ zmk_behavior_find_behavior_name_from_local_id(
                   zmk_behavior_get_local_id(behaviors[i])) = behaviors[i]

NumericEntries(store) == {e \in store : e.key # BadKey}

\* C12: across boots with changing registrations an id that was ever
\* persisted for one name is never carried by a behavior of another name, and
\* every id the fill phase allocates is strictly greater than every id in the
\* store as it was at that boot.
C12_NeverReused ==
    /\ [](alloc_pc = "ready" =>
            \A p \in NumericEntries(persisted), i \in Items :
                local_id[i] = p.key => behaviors[i] = p.val)
    /\ [][(alloc_pc = "replay" /\ alloc_pc' = "ready") =>
            \A i \in Items : local_id[i] = 0 =>
                \A e \in NumericEntries(boot_settings) : local_id'[i] > e.key]_vars

\* C13: a behavior that the store, as an earlier boot left it, holds under key
\* local_id/<i> and that is still registered has the id i once replay is
\* complete (the fill phase gives it no other id), for every i the counter
\* reaches.
C13_StableAcrossReboots ==
    (alloc_pc = "ready" \/ (alloc_pc = "replay" /\ pending = {}))
    => \A p \in NumericEntries(boot_settings), i \in Items :
            behaviors[i] = p.val => local_id[i] = p.key

\* Vocabulary of the validation claims: the results by the names the claims use.
Match == 0
NoSpecsDeclared == -ENODEV
Unsupported == -ENOTSUP
Applied(fn) == applied.fn = fn

\* a parameter passes a list of specs: it matches, or none is declared and it is 0
Passes(values, param) ==
    LET r == zmk_behavior_validate_param_values(values, param)
    IN r = Match \/ (r = NoSpecsDeclared /\ param = 0)

\* C14: zmk_behavior_validate_params_metadata is Ok (0) exactly when: metadata
\* is absent or has no sets and both parameters are 0; or some one set lets
\* param1 pass and lets param2 pass. It is Invalid (negative) otherwise, in
\* particular when the two parameters pass in different sets only.
C14_ValidateBindingReference ==
    Applied("zmk_behavior_validate_params_metadata")
    => LET metadata == applied.in[1]
           param1 == applied.in[2]
           param2 == applied.in[3]
           ok == IF ~metadata.present \/ Len(metadata.sets) = 0
                 THEN param1 = 0 /\ param2 = 0
                 ELSE \E k \in DOMAIN metadata.sets :
                        /\ Passes(metadata.sets[k].param1_values, param1)
                        /\ Passes(metadata.sets[k].param2_values, param2)
       IN IF ok THEN applied.ret = 0 ELSE applied.ret < 0

\* param1 passes in the first set only and param2 in the second only: Invalid
C14_Witness ==
    /\ Applied("zmk_behavior_validate_params_metadata")
    /\ applied.in[1].sets =
         <<[param1_values |-> <<Value(1)>>, param2_values |-> <<Value(1)>>],
           [param1_values |-> <<Value(2)>>, param2_values |-> <<Value(2)>>]>>
    /\ applied.in[2] = 1
    /\ applied.in[3] = 2
    /\ applied.ret = -EINVAL

\* Validity of a usage as the specification words it.
UsageIsValid(basic, usage_page, usage_id) ==
    IF usage_page = HID_USAGE_KEY
    THEN ~(\/ usage_id = 0
           \/ /\ usage_id > ZMK_HID_KEYBOARD_NKRO_MAX_USAGE
              /\ (usage_id < LEFT_CONTROL \/ usage_id > RIGHT_GUI))
    ELSE IF usage_page = HID_USAGE_CONSUMER
    THEN usage_id <= (IF basic THEN 255 ELSE 4095)
    ELSE FALSE

\* One value spec against a value, as the specification words it.
SpecMatches(spec, value) ==
    CASE spec.type = "NIL" -> value = 0
      [] spec.type = "LAYER_INDEX" -> 0 <= value /\ value < ZMK_KEYMAP_LAYERS_LEN
      [] spec.type = "VALUE" -> value = spec.value
      [] spec.type = "RANGE" -> spec.min <= value /\ value <= spec.max
      [] spec.type = "HID_USAGE" ->
            UsageIsValid(CONFIG_ZMK_HID_CONSUMER_REPORT_USAGES_BASIC,
                         ZMK_HID_USAGE_PAGE(value), ZMK_HID_USAGE_ID(value))

\* C15: zmk_behavior_validate_param_values gives NoSpecsDeclared for an empty
\* list; otherwise Match when at least one spec of the list matches the value
\* (Nil: 0; LayerIndex: below the layer count; FixedValue; Range; HidUsage: a
\* valid usage) and Unsupported when none does, whatever the specs' order.
C15_ValidateValueReference ==
    Applied("zmk_behavior_validate_param_values")
    => LET values == applied.in[1]
           param == applied.in[2]
       IN IF Len(values) = 0 THEN applied.ret = NoSpecsDeclared
          ELSE IF \E v \in DOMAIN values : SpecMatches(values[v], param)
          THEN applied.ret = Match
          ELSE applied.ret = Unsupported

\* C16: on page Key validate_hid_usage rejects a usage id exactly when it is 0
\* or exceeds the NKRO maximum while lying outside [LEFT_CONTROL, RIGHT_GUI].
C16_KeyUsages ==
    (Applied("validate_hid_usage") /\ applied.in[2] = HID_USAGE_KEY)
    => (applied.ret >= 0) = UsageIsValid(applied.in[1], HID_USAGE_KEY, applied.in[3])

\* C17: on page Consumer validate_hid_usage accepts a usage id exactly when it
\* is at most the ceiling of the build (0xFF with the basic consumer report,
\* 0xFFF without), and it rejects every usage of a page other than Key and
\* Consumer.
C17_ConsumerUsages ==
    Applied("validate_hid_usage")
    => LET basic == applied.in[1]
           usage_page == applied.in[2]
           usage_id == applied.in[3]
       IN /\ usage_page = HID_USAGE_CONSUMER =>
                (applied.ret >= 0) = (usage_id <= IF basic THEN 255 ELSE 4095)
          /\ usage_page \notin {HID_USAGE_KEY, HID_USAGE_CONSUMER} => applied.ret < 0

\* usage 0x100 of page Consumer in a build with the basic consumer report
C17_Witness ==
    /\ Applied("validate_hid_usage")
    /\ applied.in = <<TRUE, HID_USAGE_CONSUMER, 256>>
    /\ applied.ret = -EINVAL

\* the item registered under a name, 0 when no behavior has it
ItemNamed(str) ==
    IF \E k \in Items : behaviors[k] = str
    THEN CHOOSE k \in Items : behaviors[k] = str
    ELSE 0

\* C19 (as stated): behavior_get_binding gives the behavior registered under
\* the name, whether the name is passed by reference or as an equal string,
\* and NULL when the name is NULL, empty or no registered behavior's.
C19_LookupByName ==
    Applied("behavior_get_binding")
    => LET name == applied.in[1]
       IN applied.ret = IF name.null THEN 0 ELSE ItemNamed(name.str)

\* C19 (amended): behavior_get_binding gives the behavior registered under the
\* name when its device is ready, whether the name is passed by reference or
\* as an equal string; it gives NULL when the name is NULL, empty, no
\* registered behavior's, or that of a behavior whose device is not ready.
C19_LookupByNameOfReady ==
    Applied("behavior_get_binding")
    => LET name == applied.in[1]
           k == IF name.null THEN 0 ELSE ItemNamed(name.str)
       IN applied.ret = IF k # 0 /\ ready[k] THEN k ELSE 0

\* the second behavior is looked up by the very name its device holds, once
\* with the device ready
C19_Witness ==
    /\ Applied("behavior_get_binding")
    /\ applied.in[1] = NameAt(2)
    /\ ready[2]
    /\ applied.ret = 2

\* C18: over any sequence of requests, a notification carrying v is raised
\* whenever the dirty state (what check_unsaved_changes reports) changes to v,
\* and the value of the most recent notification is the current dirty state.
C18_NotificationTracksDirty ==
    /\ [](last_notified # "none" => (last_notified = "true") = Dirty)
    /\ [][Dirty' # Dirty => \E k \in DOMAIN notif' : notif'[k] = Dirty']_vars

SaveSteps == <<"zmk_physical_layouts_save_selected", "zmk_keymap_save_changes">>
DiscardSteps == <<"zmk_physical_layouts_revert_selected", "zmk_keymap_discard_changes">>

\* what C20 says of one run of save_changes or discard_changes whose steps
\* are, in order, steps, and succeed as layout_ok and keymap_ok say
TwoStepOutcome(op, steps, layout_ok, keymap_ok) ==
    /\ calls' = IF layout_ok
                THEN <<Call(steps[1], 0, 0), Call(steps[2], 0, 0)>>
                ELSE <<Call(steps[1], 0, 0)>>
    /\ IF layout_ok /\ keymap_ok
       THEN /\ resp' = Response(op, "true")
            /\ notif' = <<FALSE>>
            /\ ~Dirty'
       ELSE /\ resp' = Response(op, "GENERIC")
            /\ notif' = <<>>

\* C20: save_changes (and discard_changes) runs the layout step, then the
\* keymap step only if the layout step succeeded; it raises exactly one
\* unsaved_changes_status_changed(false) and answers success exactly when both
\* steps succeeded, and check_unsaved_changes is false after that; when the
\* layout step fails the keymap step is not run and nothing is raised.
C20_SaveDiscardSteps ==
    [][\A layout_ok \in BOOLEAN, keymap_ok \in BOOLEAN :
          /\ save_changes(layout_ok, keymap_ok)
                => TwoStepOutcome("save_changes", SaveSteps, layout_ok, keymap_ok)
          /\ discard_changes(layout_ok, keymap_ok)
                => TwoStepOutcome("discard_changes", DiscardSteps, layout_ok, keymap_ok)]_vars

\* a layout switch has been saved: both steps ran, in order
C20_Witness ==
    /\ resp = Response("save_changes", "true")
    /\ calls = <<Call(SaveSteps[1], 0, 0), Call(SaveSteps[2], 0, 0)>>
    /\ notif = <<FALSE>>
    /\ selected = 1
    /\ selected_saved = 1
    /\ ~Dirty

\* layer l holds, cell for cell, what migration is to leave in it
LayerMigrated(l) ==
    \A b \in Positions : keymap[l][b] = MigratedCell(mig.pre, l, b, mig.pm)

\* layer l holds its contents from before the migration
LayerAsBefore(l) == keymap[l] = mig.pre[l]

\* C21: each layer is replaced atomically: its new array is built from the old
\* bindings before the first write to it, and once migrate_keymap has returned
\* (store writes rejected or failed included) every layer is either entirely
\* the migrated array or entirely its pre-migration contents, never a mix.
C21_LayerAtomic ==
    mig.ran => \A l \in Layers : LayerMigrated(l) \/ LayerAsBefore(l)

\* C22: the replay-then-fill sequence is idempotent once it has completed:
\* run a second time with the same registered behaviors on the store the
\* first run left, it changes no behavior's local id, allocates no new id,
\* does not advance largest_local_id and writes nothing to the store.
C22_ReplayFillIdempotent ==
    /\ [](first_run.done /\ alloc_pc = "ready"
            => /\ local_id = first_run.ids
               /\ largest_local_id = first_run.largest
               /\ settings = first_run.store)
    /\ [][first_run.done /\ HandleCommit
            => /\ local_id' = local_id
               /\ largest_local_id' = largest_local_id
               /\ settings' = settings]_vars

====
